---- MODULE Spec2Model ----
(***************************************************************************)
(* Model of cstree's threaded green-tree builder                           *)
(* (src/cstree/src/green/threaded_builder.rs): ThreadedNodeCache, the      *)
(* concurrent deduplication cache of tokens and small nodes, and           *)
(* ThreadedGreenNodeBuilder, the stack machine that assembles a tree from  *)
(* start_node / token / finish_node events.                                *)
(*                                                                         *)
(* Green tokens and nodes are reference-counted heap objects; instance     *)
(* identity is modelled by the index of the object in tokenHeap/nodeHeap.  *)
(* Builder state is private to its thread; a handler touches the shared    *)
(* cache through get_or_intern on the interner and one locked entry() call *)
(* on a DashMap.  Interner keys are stable and the entry is decided under  *)
(* the shard lock, so the handlers of different builders interleave as     *)
(* atomic steps.                                                           *)
(***************************************************************************)
EXTENDS Integers, Sequences, FiniteSets, TLC

(* ------------------------------ bounds --------------------------------- *)
\* one builder at a time, every kind of call: longest pending-children list,
\* deepest stack of open frames, number of GreenNode allocations explored
MaxPendingSolo == 2
MaxDepthSolo == 2
MaxNodesSolo == 1
\* two builder threads on one cache
MaxPendingShared == 1
MaxDepthShared == 1
MaxNodesShared == 2
\* one builder at a time, one open node at a time, nodes around
\* CHILDREN_CACHE_THRESHOLD
MaxPendingWide == 4
MaxNodesWide == 3
\* one builder at a time, every kind of call, a cache of several nodes
MaxPendingDeep == 2
MaxDepthDeep == 2
MaxNodesDeep == 2
\* one builder at a time, made by every constructor on caches made by every
\* constructor
MaxPendingOwn == 1
MaxDepthOwn == 1
MaxNodesOwn == 1
\* one builder at a time, plain construction calls, nodes inside nodes
MaxPendingNest == 1
MaxDepthNest == 2
MaxNodesNest == 2
\* two builder threads on one cache, each followed on a cache of its own
MaxPendingTwin == 1
MaxDepthTwin == 2
MaxNodesTwin == 2
\* the 32-bit child hash is narrowed to residues modulo HashMod
HashMod == 4

(* ------------------------- program constants --------------------------- *)
CHILDREN_CACHE_THRESHOLD == 3
\* multiplier of the Fx hash round, narrowed with the hash
HashSeed == 3

(* --------------------- the Syntax collaborator ------------------------- *)
\* raw syntax kinds (S::into_raw)
Root == 0
Wrap == 1
Ident == 2
Plus == 3
\* Option: None is the empty tuple, Some(x) the one-element tuple
None == <<>>
Some(x) == <<x>>
Unwrap(o) == o[1]
\* S::static_text
static_text(kind) == IF kind = Plus THEN Some("+") ELSE None

\* builder threads attached to the one ThreadedNodeCache
Builders == {1, 2}
NoCheckpoint == -1
\* the variants of MaybeOwnedRef
Owned == "Owned"
Borrowed == "Borrowed"
\* MaybeOwnedRef::into_owned
into_owned(ref, x) == IF ref = Owned THEN Some(x) ELSE None
\* interner_mut was not called yet
Unasked == <<"not", "asked">>

VARIABLES
    interner,   \* the interner's texts; the TokenKey of a text is its index
    tokenHeap,  \* allocated GreenTokens (GreenTokenData), by instance id
    nodeHeap,   \* allocated GreenNodes (head and children), by instance id
    tokens,     \* ThreadedNodeCache.tokens : GreenTokenData -> token instance
    nodes,      \* ThreadedNodeCache.nodes  : GreenNodeHead -> node instance
    status,     \* per builder: "absent", "building", "finished" or a panic
    parents,    \* per builder: stack of open frames <<kind, first_child>>
    children,   \* per builder: the flat pending-children list
    doc_len,    \* per builder: the running document length
    root,       \* per builder: the node finish() returned, or None
    cp,         \* per builder: the Checkpoint its caller holds
    cpLow,      \* per builder: shortest pending list since cp was taken
    wrapFrom,   \* per builder, per frame: for a start_node_at frame, the
                \* index from which pending elements postdate its checkpoint
    workload,   \* the calls the parsers driving the builders make, and how
                \* far they are explored
    cache_ref,  \* per builder: the MaybeOwnedRef variant of its cache field
    interner_ref, \* the MaybeOwnedRef variant of the cache's interner field
    cache_alive,  \* the cache exists (FALSE once it was dropped with the
                  \* builder that owned it)
    handed,     \* per builder: the Option<ThreadedNodeCache> finish returned
    asked,      \* the last answers of interner_mut, on each builder and on
                \* the cache
    made,       \* the constructors that made each builder and the cache
    solo        \* per builder, when the workload asks for it: the interner,
                \* node cache and pending list, as values, that its calls
                \* since construction give on a cache of its own

vars == <<interner, tokenHeap, nodeHeap, tokens, nodes, status, parents,
          children, doc_len, root, cp, cpLow, wrapFrom, workload,
          cache_ref, interner_ref, cache_alive, handed, asked, made, solo>>
cacheVars == <<interner, tokenHeap, nodeHeap, tokens, nodes>>
ownVars == <<cache_ref, interner_ref, cache_alive, handed, asked, made>>

(* ------------------------------ helpers -------------------------------- *)
Min(a, b) == IF a < b THEN a ELSE b
Max(a, b) == IF a > b THEN a ELSE b
Last(s) == s[Len(s)]
\* s[offset..] with a 0-based offset, as a Rust slice
SliceFrom(s, offset) == SubSeq(s, offset + 1, Len(s))
\* s truncated to its first n elements
Truncate(s, n) == SubSeq(s, 1, n)

NodeElem(id) == [tag |-> "Node", id |-> id]
TokenElem(id) == [tag |-> "Token", id |-> id]

\* GreenElement::text_len
text_len(e) == IF e.tag = "Token" THEN tokenHeap[e.id].text_len
               ELSE nodeHeap[e.id].text_len

\* one round of the Fx hasher, on HashMod residues
HashWord(h, w) == ((h * 2 + w) * HashSeed) % HashMod

\* <GreenElement as Hash>::hash: a token hashes its data, a node its head
HashElem(h, e) ==
    IF e.tag = "Token"
    THEN LET d == tokenHeap[e.id]
             t == IF d.text = None THEN 0 ELSE Unwrap(d.text) + 1
         IN  HashWord(HashWord(HashWord(HashWord(h, 1), d.kind), t), d.text_len)
    ELSE LET n == nodeHeap[e.id]
         IN  HashWord(HashWord(HashWord(HashWord(h, 0), n.kind), n.text_len),
                      n.child_hash)

RECURSIVE HashFold(_, _)
HashFold(h, s) == IF s = <<>> THEN h
                  ELSE HashFold(HashElem(h, Head(s)), Tail(s))
\* the loop of ThreadedNodeCache::node: hash of the children, in order
ChildHash(s) == HashFold(0, s)

RECURSIVE SumTextLen_direct(_)
\* a total that counts the children that are tokens only
SumTextLen_direct(s) ==
    IF s = <<>> THEN 0
    ELSE (IF Head(s).tag = "Token" THEN text_len(Head(s)) ELSE 0)
         + SumTextLen_direct(Tail(s))

RECURSIVE SumTextLen(_)
\* the loop of ThreadedNodeCache::node: total text length of the children
SumTextLen(s) == IF s = <<>> THEN 0 ELSE text_len(Head(s)) + SumTextLen(Tail(s))

(* ------------------------- ThreadedNodeCache --------------------------- *)
\* the key an interner holds for text, if any
KeyOf(text) == CHOOSE i \in 1..Len(interner) : interner[i] = text

\* ThreadedNodeCache::intern: get_or_intern on the interner
intern(text) ==
    IF \E i \in 1..Len(interner) : interner[i] = text
    THEN [key |-> KeyOf(text), interner |-> interner]
    ELSE [key |-> Len(interner) + 1, interner |-> Append(interner, text)]

\* a token request that does not look the data up: insert(data, new)
NodeCache_token_insert(kind, text, len) ==
    LET data == [kind |-> kind, text |-> text, text_len |-> len]
    IN  [token |-> Len(tokenHeap) + 1,
         tokenHeap |-> Append(tokenHeap, data),
         tokens |-> [d \in DOMAIN tokens \cup {data} |->
                        IF d = data THEN Len(tokenHeap) + 1 ELSE tokens[d]]]

\* ThreadedNodeCache::token: tokens.entry(data).or_insert_with(new).clone()
NodeCache_token(kind, text, len) ==
    LET data == [kind |-> kind, text |-> text, text_len |-> len]
    IN  IF data \in DOMAIN tokens
        THEN [token |-> tokens[data], tokenHeap |-> tokenHeap, tokens |-> tokens]
        ELSE [token |-> Len(tokenHeap) + 1,
              tokenHeap |-> Append(tokenHeap, data),
              tokens |-> tokens @@ (data :> Len(tokenHeap) + 1)]

\* GreenNode::new_with_len_and_hash: a fresh node, the cache is not involved
new_with_len_and_hash(kind, slice, len, child_hash) ==
    [node |-> Len(nodeHeap) + 1,
     nodeHeap |-> Append(nodeHeap, [kind |-> kind, text_len |-> len,
                                    child_hash |-> child_hash,
                                    children |-> slice]),
     nodes |-> nodes]

\* a node request that replaces the entry it finds: insert(head, new)
get_cached_node_insert(kind, slice, len, child_hash) ==
    LET head == [kind |-> kind, text_len |-> len, child_hash |-> child_hash]
    IN  [node |-> Len(nodeHeap) + 1,
         nodeHeap |-> Append(nodeHeap, [kind |-> kind, text_len |-> len,
                                        child_hash |-> child_hash,
                                        children |-> slice]),
         nodes |-> [h \in DOMAIN nodes \cup {head} |->
                        IF h = head THEN Len(nodeHeap) + 1 ELSE nodes[h]]]

\* a node cache that makes room: a miss drops the entries it finds
get_cached_node_evict(kind, slice, len, child_hash) ==
    LET head == [kind |-> kind, text_len |-> len, child_hash |-> child_hash]
    IN  IF head \in DOMAIN nodes
        THEN [node |-> nodes[head], nodeHeap |-> nodeHeap, nodes |-> nodes]
        ELSE [node |-> Len(nodeHeap) + 1,
              nodeHeap |-> Append(nodeHeap, [kind |-> kind, text_len |-> len,
                                             child_hash |-> child_hash,
                                             children |-> slice]),
              nodes |-> (head :> Len(nodeHeap) + 1)]

\* ThreadedNodeCache::get_cached_node:
\* nodes.entry(head).or_insert_with(from_head_and_children).clone()
get_cached_node(kind, slice, len, child_hash) ==
    LET head == [kind |-> kind, text_len |-> len, child_hash |-> child_hash]
    IN  IF head \in DOMAIN nodes
        THEN [node |-> nodes[head], nodeHeap |-> nodeHeap, nodes |-> nodes]
        ELSE [node |-> Len(nodeHeap) + 1,
              nodeHeap |-> Append(nodeHeap, [kind |-> kind, text_len |-> len,
                                             child_hash |-> child_hash,
                                             children |-> slice]),
              nodes |-> nodes @@ (head :> Len(nodeHeap) + 1)]

\* the threshold test with < for <=
NodeCache_node_below(kind, all_children, offset) ==
    LET slice == SliceFrom(all_children, offset)
    IN  IF Len(slice) < CHILDREN_CACHE_THRESHOLD
        THEN get_cached_node(kind, slice, SumTextLen(slice), ChildHash(slice))
        ELSE new_with_len_and_hash(kind, slice, SumTextLen(slice), ChildHash(slice))

\* ThreadedNodeCache::node: the node for all_children[offset..]
NodeCache_node(kind, all_children, offset) ==
    LET slice == SliceFrom(all_children, offset)
    IN  IF Len(slice) <= CHILDREN_CACHE_THRESHOLD
        THEN get_cached_node(kind, slice, SumTextLen(slice), ChildHash(slice))
        ELSE new_with_len_and_hash(kind, slice, SumTextLen(slice), ChildHash(slice))

(* ------------- the same calls on a cache of the builder's own ----------- *)
\* ThreadedNodeCache::new with no builder call made yet
SoloNew == [interner |-> <<>>, nodes |-> <<>>, children |-> <<>>]

\* <GreenElement as Hash>::hash, on an element held as a value
SoloHashElem(h, e) ==
    IF e.tag = "Token"
    THEN LET t == IF e.text = None THEN 0 ELSE Unwrap(e.text) + 1
         IN  HashWord(HashWord(HashWord(HashWord(h, 1), e.kind), t), e.text_len)
    ELSE HashWord(HashWord(HashWord(HashWord(h, 0), e.kind), e.text_len),
                  e.child_hash)

RECURSIVE SoloHashFold(_, _)
SoloHashFold(h, s) == IF s = <<>> THEN h
                      ELSE SoloHashFold(SoloHashElem(h, Head(s)), Tail(s))
\* the loop of ThreadedNodeCache::node, on elements held as values
SoloChildHash(s) == SoloHashFold(0, s)

RECURSIVE SoloSumTextLen(_)
SoloSumTextLen(s) == IF s = <<>> THEN 0 ELSE Head(s).text_len + SoloSumTextLen(Tail(s))

\* token or static_token on the builder's own cache: the text, if any, is
\* interned in its own interner, and the token pushed
Solo_token(s, kind, text, len) ==
    LET known == \E i \in 1..Len(s.interner) : s.interner[i] = Unwrap(text)
        key == IF text = None THEN None
               ELSE IF known
               THEN Some(CHOOSE i \in 1..Len(s.interner) : s.interner[i] = Unwrap(text))
               ELSE Some(Len(s.interner) + 1)
    IN  [s EXCEPT !.interner = IF text = None \/ known THEN @
                               ELSE Append(@, Unwrap(text)),
                  !.children = Append(@, [tag |-> "Token", kind |-> kind,
                                          text |-> key, str |-> text,
                                          text_len |-> len])]

\* finish_node on the builder's own cache: ThreadedNodeCache::node for the
\* children from first_child, pushed in their place
Solo_node(s, kind, first_child) ==
    LET slice == SliceFrom(s.children, first_child)
        head == [kind |-> kind, text_len |-> SoloSumTextLen(slice),
                 child_hash |-> SoloChildHash(slice)]
        fresh == [tag |-> "Node", kind |-> kind, text_len |-> head.text_len,
                  child_hash |-> head.child_hash, children |-> slice]
        small == Len(slice) <= CHILDREN_CACHE_THRESHOLD
        hit == small /\ head \in DOMAIN s.nodes
    IN  [s EXCEPT !.nodes = IF small /\ ~hit THEN @ @@ (head :> fresh) ELSE @,
                  !.children = Append(Truncate(@, first_child),
                                      IF hit THEN s.nodes[head] ELSE fresh)]

\* pop_last_child on the builder's own cache
Solo_pop(s) == [s EXCEPT !.children = Truncate(@, Len(@) - 1)]

\* the calls of b are followed on a cache of its own when the workload
\* compares the two
Record(b, s) ==
    solo' = IF workload.twin THEN [solo EXCEPT ![b] = s] ELSE solo

(* ----------------------- ThreadedGreenNodeBuilder ---------------------- *)
PanicDebugText == "static text mismatch (debug_assert_eq)"
PanicStatic == "Missing static text"
PanicNoFrame == "finish_node: unwrap on no open frame"
PanicStale == "checkpoint no longer valid, was finish_node called early?"
PanicScope == "checkpoint no longer valid, was an unmatched start_node_at called?"
PanicNotOne == "assertion failed: children.len() == 1"
PanicRootToken == "called finish on a GreenNodeBuilder which only contained a token"
PanicNoChild == "no children to pop for current node"
Panics == {PanicDebugText, PanicStatic, PanicNoFrame, PanicStale, PanicScope,
           PanicNotOne, PanicRootToken, PanicNoChild}

MaxPending == workload.max_pending
MaxDepth == workload.max_depth
MaxNodes == workload.max_nodes

\* a fatal contract violation: the call panics before it changes anything,
\* and the unwinding thread drops the builder and the checkpoint it held
Panic(b, msg) ==
    /\ status' = [status EXCEPT ![b] = msg]
    /\ parents' = [parents EXCEPT ![b] = <<>>]
    /\ children' = [children EXCEPT ![b] = <<>>]
    /\ doc_len' = [doc_len EXCEPT ![b] = 0]
    /\ cp' = [cp EXCEPT ![b] = NoCheckpoint]
    /\ cpLow' = [cpLow EXCEPT ![b] = NoCheckpoint]
    /\ wrapFrom' = [wrapFrom EXCEPT ![b] = <<>>]
    /\ asked' = [asked EXCEPT !.builder[b] = Unasked]
    /\ IF cache_ref[b] = Owned
       THEN \* the cache the builder owned is dropped with it
            /\ cache_alive' = FALSE
            /\ interner' = <<>>
            /\ tokenHeap' = <<>>
            /\ nodeHeap' = <<>>
            /\ tokens' = <<>>
            /\ nodes' = <<>>
            /\ root' = [x \in Builders |-> None]
       ELSE UNCHANGED <<cacheVars, cache_alive, root>>
    /\ Record(b, SoloNew)
    /\ UNCHANGED <<workload, cache_ref, interner_ref, handed, made>>

\* children.push(token.into()); doc_len += text_len
PushToken(b, r, text) ==
    /\ tokenHeap' = r.tokenHeap
    /\ tokens' = r.tokens
    /\ children' = [children EXCEPT ![b] = Append(@, TokenElem(r.token))]
    /\ doc_len' = [doc_len EXCEPT ![b] = @ + r.tokenHeap[r.token].text_len]
    /\ Record(b, Solo_token(solo[b], r.tokenHeap[r.token].kind, text,
                            r.tokenHeap[r.token].text_len))
    /\ UNCHANGED <<nodeHeap, nodes, status, parents, root, cp, cpLow, wrapFrom, workload, ownVars>>

\* a builder constructor: Self { cache, parents: [], children: [], doc_len: 0 }
\* in place of a builder that finished or panicked
NewBuilder(b, cache) ==
    /\ status[b] \in {"finished", "idle"} \cup Panics
    /\ status' = [status EXCEPT ![b] = "building"]
    /\ parents' = [parents EXCEPT ![b] = <<>>]
    /\ children' = [children EXCEPT ![b] = <<>>]
    /\ doc_len' = [doc_len EXCEPT ![b] = 0]
    /\ cp' = [cp EXCEPT ![b] = NoCheckpoint]
    /\ cpLow' = [cpLow EXCEPT ![b] = NoCheckpoint]
    /\ wrapFrom' = [wrapFrom EXCEPT ![b] = <<>>]
    /\ cache_ref' = [cache_ref EXCEPT ![b] = cache]
    /\ handed' = [handed EXCEPT ![b] = None]
    /\ Record(b, SoloNew)

\* a cache constructor: Self { nodes: {}, tokens: {}, interner } in place of
\* the cache the caller had, whose trees the caller lets go
NewCache(ref, texts) ==
    /\ \A x \in Builders : status[x] # "building"
    /\ interner' = texts
    /\ tokenHeap' = <<>>
    /\ nodeHeap' = <<>>
    /\ tokens' = <<>>
    /\ nodes' = <<>>
    /\ interner_ref' = ref
    /\ cache_alive' = TRUE
    /\ root' = [x \in Builders |-> None]

\* the caller keeps nothing of the builders that are over
Forget(st) == IF st = "absent" THEN "absent" ELSE "idle"

\* ThreadedNodeCache::new, called by the owner of the cache
NodeCache_new ==
    /\ NewCache(Owned, <<>>)
    /\ status' = [x \in Builders |-> Forget(status[x])]
    /\ handed' = [x \in Builders |-> None]
    /\ made' = [made EXCEPT !.cache = "new"]
    /\ asked' = [asked EXCEPT !.cache = Unasked]
    /\ UNCHANGED <<parents, children, doc_len, cp, cpLow, wrapFrom, workload, cache_ref, solo>>

\* ThreadedNodeCache::with_interner, called by the owner of the cache
NodeCache_with_interner(texts) ==
    /\ NewCache(Borrowed, texts)
    /\ status' = [x \in Builders |-> Forget(status[x])]
    /\ handed' = [x \in Builders |-> None]
    /\ made' = [made EXCEPT !.cache = "with_interner"]
    /\ asked' = [asked EXCEPT !.cache = Unasked]
    /\ UNCHANGED <<parents, children, doc_len, cp, cpLow, wrapFrom, workload, cache_ref, solo>>

\* ThreadedNodeCache::from_interner, called by the owner of the cache
NodeCache_from_interner(texts) ==
    /\ NewCache(Owned, texts)
    /\ status' = [x \in Builders |-> Forget(status[x])]
    /\ handed' = [x \in Builders |-> None]
    /\ made' = [made EXCEPT !.cache = "from_interner"]
    /\ asked' = [asked EXCEPT !.cache = Unasked]
    /\ UNCHANGED <<parents, children, doc_len, cp, cpLow, wrapFrom, workload, cache_ref, solo>>

\* ThreadedNodeCache::interner_mut
NodeCache_interner_mut ==
    IF interner_ref = Owned THEN Some("interner") ELSE None

\* interner_mut called on the cache by its owner, while no builder uses it
cache_interner_mut ==
    /\ cache_alive
    /\ \A x \in Builders : status[x] # "building"
    /\ asked' = [asked EXCEPT !.cache = NodeCache_interner_mut]
    /\ UNCHANGED <<cacheVars, status, parents, children, doc_len, root, cp, cpLow,
                   wrapFrom, workload, cache_ref, interner_ref, cache_alive,
                   handed, made, solo>>

\* ThreadedGreenNodeBuilder::new: a builder owning ThreadedNodeCache::new()
new(b) ==
    /\ NewBuilder(b, Owned)
    /\ NewCache(Owned, <<>>)
    /\ made' = [builder |-> [made.builder EXCEPT ![b] = "new"], cache |-> "new"]
    /\ asked' = [builder |-> [asked.builder EXCEPT ![b] = Unasked], cache |-> Unasked]
    /\ UNCHANGED workload

\* ThreadedGreenNodeBuilder::with_cache: a new builder borrowing the cache
with_cache(b) ==
    /\ cache_alive
    /\ NewBuilder(b, Borrowed)
    /\ root' = [root EXCEPT ![b] = None]
    /\ made' = [made EXCEPT !.builder[b] = "with_cache"]
    /\ asked' = [asked EXCEPT !.builder[b] = Unasked]
    /\ UNCHANGED <<cacheVars, workload, interner_ref, cache_alive>>

\* ThreadedGreenNodeBuilder::from_cache: a new builder owning the cache
from_cache(b) ==
    /\ cache_alive
    /\ NewBuilder(b, Owned)
    /\ root' = [root EXCEPT ![b] = None]
    /\ made' = [made EXCEPT !.builder[b] = "from_cache"]
    /\ asked' = [asked EXCEPT !.builder[b] = Unasked]
    /\ UNCHANGED <<cacheVars, workload, interner_ref, cache_alive>>

\* ThreadedGreenNodeBuilder::with_interner:
\* from_cache(ThreadedNodeCache::with_interner(interner))
with_interner(b, texts) ==
    /\ NewBuilder(b, Owned)
    /\ NewCache(Borrowed, texts)
    /\ made' = [builder |-> [made.builder EXCEPT ![b] = "with_interner"],
                cache |-> "with_interner"]
    /\ asked' = [builder |-> [asked.builder EXCEPT ![b] = Unasked], cache |-> Unasked]
    /\ UNCHANGED workload

\* ThreadedGreenNodeBuilder::from_interner:
\* from_cache(ThreadedNodeCache::from_interner(interner))
from_interner(b, texts) ==
    /\ NewBuilder(b, Owned)
    /\ NewCache(Owned, texts)
    /\ made' = [builder |-> [made.builder EXCEPT ![b] = "from_interner"],
                cache |-> "from_interner"]
    /\ asked' = [builder |-> [asked.builder EXCEPT ![b] = Unasked], cache |-> Unasked]
    /\ UNCHANGED workload

\* interner_mut that reaches through a borrowed cache
interner_mut_through(b) ==
    /\ status[b] = "building"
    /\ asked' = [asked EXCEPT !.builder[b] = NodeCache_interner_mut]
    /\ UNCHANGED <<cacheVars, status, parents, children, doc_len, root, cp, cpLow,
                   wrapFrom, workload, cache_ref, interner_ref, cache_alive,
                   handed, made, solo>>

\* ThreadedGreenNodeBuilder::interner_mut
interner_mut(b) ==
    /\ status[b] = "building"
    /\ asked' = [asked EXCEPT !.builder[b] =
            IF cache_ref[b] = Owned THEN NodeCache_interner_mut ELSE None]
    /\ UNCHANGED <<cacheVars, status, parents, children, doc_len, root, cp, cpLow,
                   wrapFrom, workload, cache_ref, interner_ref, cache_alive,
                   handed, made, solo>>

\* token that takes the length of a static token from the text given
token_given_len(b, kind, text) ==
    /\ status[b] = "building"
    /\ Len(children[b]) < MaxPending
    /\ IF static_text(kind) # None
       THEN \/ /\ Unwrap(static_text(kind)) # text
               /\ Panic(b, PanicDebugText)
            \/ /\ PushToken(b, NodeCache_token(kind, None, Len(text)), None)
               /\ UNCHANGED interner
       ELSE LET i == intern(text)
            IN  /\ interner' = i.interner
                /\ PushToken(b, NodeCache_token(kind, Some(i.key), Len(text)), Some(text))

\* ThreadedGreenNodeBuilder::token
token(b, kind, text) ==
    /\ status[b] = "building"
    /\ Len(children[b]) < MaxPending
    /\ IF static_text(kind) # None
       THEN \/ /\ Unwrap(static_text(kind)) # text      \* debug builds only
               /\ Panic(b, PanicDebugText)
            \/ /\ PushToken(b, NodeCache_token(kind, None,
                                                Len(Unwrap(static_text(kind)))), None)
               /\ UNCHANGED interner
       ELSE LET i == intern(text)
            IN  /\ interner' = i.interner
                /\ PushToken(b, NodeCache_token(kind, Some(i.key), Len(text)), Some(text))

\* ThreadedGreenNodeBuilder::static_token
static_token(b, kind) ==
    /\ status[b] = "building"
    /\ Len(children[b]) < MaxPending
    /\ IF static_text(kind) = None
       THEN Panic(b, PanicStatic)
       ELSE /\ PushToken(b, NodeCache_token(kind, None,
                                             Len(Unwrap(static_text(kind)))), None)
            /\ UNCHANGED interner

\* ThreadedGreenNodeBuilder::start_node
start_node(b, kind) ==
    /\ status[b] = "building"
    /\ Len(parents[b]) < MaxDepth
    /\ workload.flat => parents[b] = <<>>
    /\ parents' = [parents EXCEPT ![b] = Append(@, <<kind, Len(children[b])>>)]
    /\ wrapFrom' = [wrapFrom EXCEPT ![b] = Append(@, NoCheckpoint)]
    /\ UNCHANGED <<cacheVars, status, children, doc_len, root, cp, cpLow, workload, ownVars, solo>>

\* finish_node that leaves the children in the pending list when the node
\* comes from the cache
finish_node_keep_on_hit(b) ==
    /\ status[b] = "building"
    /\ IF parents[b] = <<>>
       THEN Panic(b, PanicNoFrame)
       ELSE LET kind == Last(parents[b])[1]
                first_child == Last(parents[b])[2]
                r == NodeCache_node(kind, children[b], first_child)
            IN  /\ first_child < MaxPending
                /\ Len(r.nodeHeap) <= MaxNodes
                /\ nodeHeap' = r.nodeHeap
                /\ nodes' = r.nodes
                /\ parents' = [parents EXCEPT ![b] = Truncate(@, Len(@) - 1)]
                /\ children' = [children EXCEPT ![b] =
                        IF r.nodeHeap = nodeHeap
                        THEN Append(@, NodeElem(r.node))
                        ELSE Append(Truncate(@, first_child), NodeElem(r.node))]
                /\ wrapFrom' = [wrapFrom EXCEPT ![b] = Truncate(@, Len(@) - 1)]
                /\ cpLow' = [cpLow EXCEPT ![b] =
                        IF cp[b] = NoCheckpoint THEN @ ELSE Min(@, first_child)]
                /\ Record(b, Solo_node(solo[b], kind, first_child))
                /\ UNCHANGED <<interner, tokenHeap, tokens, status, doc_len, root, cp, workload, ownVars>>

\* finish_node that closes a frame (Root, 0) when none is open:
\* parents.pop().unwrap_or_default()
finish_node_default_frame(b) ==
    /\ status[b] = "building"
    /\ LET kind == IF parents[b] = <<>> THEN Root ELSE Last(parents[b])[1]
           first_child == IF parents[b] = <<>> THEN 0 ELSE Last(parents[b])[2]
           r == NodeCache_node(kind, children[b], first_child)
       IN  /\ first_child < MaxPending
           /\ Len(r.nodeHeap) <= MaxNodes
           /\ nodeHeap' = r.nodeHeap
           /\ nodes' = r.nodes
           /\ parents' = [parents EXCEPT ![b] =
                   IF @ = <<>> THEN @ ELSE Truncate(@, Len(@) - 1)]
           /\ children' = [children EXCEPT ![b] =
                   Append(Truncate(@, first_child), NodeElem(r.node))]
           /\ wrapFrom' = [wrapFrom EXCEPT ![b] =
                   IF @ = <<>> THEN @ ELSE Truncate(@, Len(@) - 1)]
           /\ cpLow' = [cpLow EXCEPT ![b] =
                   IF cp[b] = NoCheckpoint THEN @ ELSE Min(@, first_child)]
           /\ Record(b, Solo_node(solo[b], kind, first_child))
           /\ UNCHANGED <<interner, tokenHeap, tokens, status, doc_len, root, cp, workload, ownVars>>

\* ThreadedGreenNodeBuilder::finish_node
finish_node(b) ==
    /\ status[b] = "building"
    /\ IF parents[b] = <<>>
       THEN Panic(b, PanicNoFrame)
       ELSE LET kind == Last(parents[b])[1]
                first_child == Last(parents[b])[2]
                r == NodeCache_node(kind, children[b], first_child)
            IN  /\ first_child < MaxPending
                /\ Len(r.nodeHeap) <= MaxNodes
                /\ nodeHeap' = r.nodeHeap
                /\ nodes' = r.nodes
                /\ parents' = [parents EXCEPT ![b] = Truncate(@, Len(@) - 1)]
                /\ children' = [children EXCEPT ![b] =
                        Append(Truncate(@, first_child), NodeElem(r.node))]
                /\ wrapFrom' = [wrapFrom EXCEPT ![b] = Truncate(@, Len(@) - 1)]
                /\ cpLow' = [cpLow EXCEPT ![b] =
                        IF cp[b] = NoCheckpoint THEN @ ELSE Min(@, first_child)]
                /\ Record(b, Solo_node(solo[b], kind, first_child))
                /\ UNCHANGED <<interner, tokenHeap, tokens, status, doc_len, root, cp, workload, ownVars>>

\* ThreadedGreenNodeBuilder::checkpoint; the caller keeps the value
checkpoint(b) ==
    /\ status[b] = "building"
    /\ cp' = [cp EXCEPT ![b] = Len(children[b])]
    /\ cpLow' = [cpLow EXCEPT ![b] = Len(children[b])]
    /\ UNCHANGED <<cacheVars, status, parents, children, doc_len, root, wrapFrom, workload, ownVars, solo>>

\* start_node_at without its first assertion
start_node_at_any_len(b, kind) ==
    /\ status[b] = "building"
    /\ cp[b] # NoCheckpoint
    /\ IF parents[b] # <<>> /\ ~(cp[b] >= Last(parents[b])[2])
       THEN Panic(b, PanicScope)
       ELSE /\ Len(parents[b]) < MaxDepth
            /\ parents' = [parents EXCEPT ![b] = Append(@, <<kind, cp[b]>>)]
            /\ wrapFrom' = [wrapFrom EXCEPT ![b] = Append(@,
                    Max(cpLow[b], IF parents[b] = <<>> THEN 0
                                  ELSE Last(parents[b])[2]))]
            /\ UNCHANGED <<cacheVars, status, children, doc_len, root, cp, cpLow, workload, ownVars, solo>>

\* start_node_at without its second assertion
start_node_at_any_frame(b, kind) ==
    /\ status[b] = "building"
    /\ cp[b] # NoCheckpoint
    /\ IF ~(cp[b] <= Len(children[b]))
       THEN Panic(b, PanicStale)
       ELSE /\ Len(parents[b]) < MaxDepth
            /\ parents' = [parents EXCEPT ![b] = Append(@, <<kind, cp[b]>>)]
            /\ wrapFrom' = [wrapFrom EXCEPT ![b] = Append(@,
                    Max(cpLow[b], IF parents[b] = <<>> THEN 0
                                  ELSE Last(parents[b])[2]))]
            /\ UNCHANGED <<cacheVars, status, children, doc_len, root, cp, cpLow, workload, ownVars, solo>>

\* start_node_at without its two assertions
start_node_at_unchecked(b, kind) ==
    /\ status[b] = "building"
    /\ cp[b] # NoCheckpoint
    /\ Len(parents[b]) < MaxDepth
    /\ parents' = [parents EXCEPT ![b] = Append(@, <<kind, cp[b]>>)]
    /\ wrapFrom' = [wrapFrom EXCEPT ![b] = Append(@,
            Max(cpLow[b], IF parents[b] = <<>> THEN 0
                          ELSE Last(parents[b])[2]))]
    /\ UNCHANGED <<cacheVars, status, children, doc_len, root, cp, cpLow, workload, ownVars, solo>>

\* ThreadedGreenNodeBuilder::start_node_at, with the checkpoint the caller holds
start_node_at(b, kind) ==
    /\ status[b] = "building"
    /\ cp[b] # NoCheckpoint
    /\ IF ~(cp[b] <= Len(children[b]))
       THEN Panic(b, PanicStale)
       ELSE IF parents[b] # <<>> /\ ~(cp[b] >= Last(parents[b])[2])
       THEN Panic(b, PanicScope)
       ELSE /\ Len(parents[b]) < MaxDepth
            /\ parents' = [parents EXCEPT ![b] = Append(@, <<kind, cp[b]>>)]
            /\ wrapFrom' = [wrapFrom EXCEPT ![b] = Append(@,
                    Max(cpLow[b], IF parents[b] = <<>> THEN 0
                                  ELSE Last(parents[b])[2]))]
            /\ UNCHANGED <<cacheVars, status, children, doc_len, root, cp, cpLow, workload, ownVars, solo>>

\* finish without the test of what the root is
finish_any_root(b) ==
    /\ status[b] = "building"
    /\ IF Len(children[b]) # 1
       THEN Panic(b, PanicNotOne)
       ELSE /\ status' = [status EXCEPT ![b] = "finished"]
            /\ root' = [root EXCEPT ![b] = Some(children[b][1].id)]
            /\ parents' = [parents EXCEPT ![b] = <<>>]
            /\ children' = [children EXCEPT ![b] = <<>>]
            /\ doc_len' = [doc_len EXCEPT ![b] = 0]
            /\ cp' = [cp EXCEPT ![b] = NoCheckpoint]
            /\ cpLow' = [cpLow EXCEPT ![b] = NoCheckpoint]
            /\ wrapFrom' = [wrapFrom EXCEPT ![b] = <<>>]
            /\ handed' = [handed EXCEPT ![b] =
                    into_owned(cache_ref[b], [nodes |-> nodes, tokens |-> tokens])]
            /\ asked' = [asked EXCEPT !.builder[b] = Unasked]
            /\ UNCHANGED <<cacheVars, workload, cache_ref, interner_ref,
                           cache_alive, made, solo>>

\* finish that never hands the cache back
finish_keep_cache(b) ==
    /\ status[b] = "building"
    /\ IF Len(children[b]) # 1
       THEN Panic(b, PanicNotOne)
       ELSE IF children[b][1].tag = "Token"
       THEN Panic(b, PanicRootToken)
       ELSE /\ status' = [status EXCEPT ![b] = "finished"]
            /\ root' = [root EXCEPT ![b] = Some(children[b][1].id)]
            /\ parents' = [parents EXCEPT ![b] = <<>>]
            /\ children' = [children EXCEPT ![b] = <<>>]
            /\ doc_len' = [doc_len EXCEPT ![b] = 0]
            /\ cp' = [cp EXCEPT ![b] = NoCheckpoint]
            /\ cpLow' = [cpLow EXCEPT ![b] = NoCheckpoint]
            /\ wrapFrom' = [wrapFrom EXCEPT ![b] = <<>>]
            /\ handed' = [handed EXCEPT ![b] = None]
            /\ asked' = [asked EXCEPT !.builder[b] = Unasked]
            /\ UNCHANGED <<cacheVars, workload, cache_ref, interner_ref,
                           cache_alive, made, solo>>

\* ThreadedGreenNodeBuilder::finish
finish(b) ==
    /\ status[b] = "building"
    /\ IF Len(children[b]) # 1
       THEN Panic(b, PanicNotOne)
       ELSE IF children[b][1].tag = "Token"
       THEN Panic(b, PanicRootToken)
       ELSE /\ status' = [status EXCEPT ![b] = "finished"]
            /\ root' = [root EXCEPT ![b] = Some(children[b][1].id)]
            /\ parents' = [parents EXCEPT ![b] = <<>>]
            /\ children' = [children EXCEPT ![b] = <<>>]
            /\ doc_len' = [doc_len EXCEPT ![b] = 0]
            /\ cp' = [cp EXCEPT ![b] = NoCheckpoint]
            /\ cpLow' = [cpLow EXCEPT ![b] = NoCheckpoint]
            /\ wrapFrom' = [wrapFrom EXCEPT ![b] = <<>>]
            /\ handed' = [handed EXCEPT ![b] =
                    into_owned(cache_ref[b], [nodes |-> nodes, tokens |-> tokens])]
            /\ asked' = [asked EXCEPT !.builder[b] = Unasked]
            /\ UNCHANGED <<cacheVars, workload, cache_ref, interner_ref,
                           cache_alive, made, solo>>

\* ThreadedGreenNodeBuilder::current_children
current_children(b) ==
    SliceFrom(children[b], IF parents[b] = <<>> THEN 0 ELSE Last(parents[b])[2])

\* pop_last_child that leaves doc_len as it is
pop_last_child_keep_len(b) ==
    /\ status[b] = "building"
    /\ IF SliceFrom(children[b], IF parents[b] = <<>> THEN 0
                                 ELSE Last(parents[b])[2]) = <<>>
       THEN Panic(b, PanicNoChild)
       ELSE /\ children' = [children EXCEPT ![b] = Truncate(@, Len(@) - 1)]
            /\ cpLow' = [cpLow EXCEPT ![b] =
                    IF cp[b] = NoCheckpoint THEN @ ELSE Min(@, Len(children[b]) - 1)]
            /\ Record(b, Solo_pop(solo[b]))
            /\ UNCHANGED <<cacheVars, status, parents, doc_len, root, cp, wrapFrom, workload, ownVars>>

\* pop_last_child that tests the whole pending list, not the current frame
pop_last_child_unchecked(b) ==
    /\ status[b] = "building"
    /\ IF children[b] = <<>>
       THEN Panic(b, PanicNoChild)
       ELSE /\ children' = [children EXCEPT ![b] = Truncate(@, Len(@) - 1)]
            /\ doc_len' = [doc_len EXCEPT ![b] = @ - text_len(Last(children[b]))]
            /\ cpLow' = [cpLow EXCEPT ![b] =
                    IF cp[b] = NoCheckpoint THEN @ ELSE Min(@, Len(children[b]) - 1)]
            /\ Record(b, Solo_pop(solo[b]))
            /\ UNCHANGED <<cacheVars, status, parents, root, cp, wrapFrom, workload, ownVars>>

\* ThreadedGreenNodeBuilder::pop_last_child
pop_last_child(b) ==
    /\ status[b] = "building"
    /\ IF current_children(b) = <<>>
       THEN Panic(b, PanicNoChild)
       ELSE /\ children' = [children EXCEPT ![b] = Truncate(@, Len(@) - 1)]
            /\ doc_len' = [doc_len EXCEPT ![b] = @ - text_len(Last(children[b]))]
            /\ cpLow' = [cpLow EXCEPT ![b] =
                    IF cp[b] = NoCheckpoint THEN @ ELSE Min(@, Len(children[b]) - 1)]
            /\ Record(b, Solo_pop(solo[b]))
            /\ UNCHANGED <<cacheVars, status, parents, root, cp, wrapFrom, workload, ownVars>>

(* --------------------------- specifications ---------------------------- *)
InitCache ==
    /\ interner = <<>>
    /\ tokenHeap = <<>>
    /\ nodeHeap = <<>>
    /\ tokens = <<>>
    /\ nodes = <<>>
    /\ interner_ref = Owned
    /\ cache_alive = TRUE

\* builders made by the constructor how, with the cache field cache
InitBuilders(st, how, cache) ==
    /\ status = st
    /\ cache_ref = [b \in Builders |-> cache]
    /\ handed = [b \in Builders |-> None]
    /\ asked = [builder |-> [b \in Builders |-> Unasked], cache |-> Unasked]
    /\ made = [builder |-> [b \in Builders |-> how], cache |-> "new"]
    /\ solo = [b \in Builders |-> SoloNew]
    /\ parents = [b \in Builders |-> <<>>]
    /\ children = [b \in Builders |-> <<>>]
    /\ doc_len = [b \in Builders |-> 0]
    /\ root = [b \in Builders |-> None]
    /\ cp = [b \in Builders |-> NoCheckpoint]
    /\ cpLow = [b \in Builders |-> NoCheckpoint]
    /\ wrapFrom = [b \in Builders |-> <<>>]

\* a parser of identifiers that makes every builder call, static_token on a
\* kind without static text included
WorkloadSolo ==
    [node_kinds |-> {Root},
     token_calls |-> {<<Ident, "ab">>},
     static_kinds |-> {Ident}, flat |-> FALSE, interners |-> {<<>>}, twin |-> FALSE,
     max_pending |-> MaxPendingSolo, max_depth |-> MaxDepthSolo,
     max_nodes |-> MaxNodesSolo]

\* two parsers of identifiers, which also ask for the static token of a kind
\* that has no static text
WorkloadShared ==
    [node_kinds |-> {Root},
     token_calls |-> {<<Ident, "ab">>},
     static_kinds |-> {Ident}, flat |-> FALSE, interners |-> {<<>>}, twin |-> FALSE,
     max_pending |-> MaxPendingShared, max_depth |-> MaxDepthShared,
     max_nodes |-> MaxNodesShared]

\* a parser of wide, flat nodes: it opens a node only when none is open
WorkloadWide ==
    [node_kinds |-> {Root},
     token_calls |-> {<<Plus, "+">>, <<Plus, "ab">>},
     static_kinds |-> {Plus}, flat |-> TRUE, interners |-> {<<>>}, twin |-> FALSE,
     max_pending |-> MaxPendingWide, max_depth |-> MaxPendingWide,
     max_nodes |-> MaxNodesWide]

\* the parser of WorkloadSolo with a second kind of node, and room for more
\* nodes in the cache
WorkloadDeep ==
    [node_kinds |-> {Root, Wrap},
     token_calls |-> {<<Ident, "ab">>},
     static_kinds |-> {Ident}, flat |-> FALSE, interners |-> {<<>>}, twin |-> FALSE,
     max_pending |-> MaxPendingDeep, max_depth |-> MaxDepthDeep,
     max_nodes |-> MaxNodesDeep]

\* a parser of identifiers and operators whose caller makes builders and
\* caches with every constructor, over a new interner or one that knows a
\* text already; the parser passes the text it read to token, also for the
\* operator, whose text is static
WorkloadOwn ==
    [node_kinds |-> {Root},
     token_calls |-> {<<Ident, "ab">>, <<Plus, "ab">>},
     static_kinds |-> {Plus}, flat |-> FALSE, interners |-> {<<>>, <<"cd">>}, twin |-> FALSE,
     max_pending |-> MaxPendingOwn, max_depth |-> MaxDepthOwn,
     max_nodes |-> MaxNodesOwn]

\* a parser of identifiers that nests nodes of two kinds
WorkloadNest ==
    [node_kinds |-> {Root, Wrap},
     token_calls |-> {<<Ident, "ab">>},
     static_kinds |-> {Ident}, flat |-> FALSE, interners |-> {<<>>}, twin |-> FALSE,
     max_pending |-> MaxPendingNest, max_depth |-> MaxDepthNest,
     max_nodes |-> MaxNodesNest]

\* two parsers of identifiers that nest nodes of two kinds; what each builds
\* is compared with what its calls give on a cache of its own
WorkloadTwin ==
    [node_kinds |-> {Root, Wrap},
     token_calls |-> {<<Ident, "ab">>},
     static_kinds |-> {Ident}, flat |-> FALSE, interners |-> {<<>>}, twin |-> TRUE,
     max_pending |-> MaxPendingTwin, max_depth |-> MaxDepthTwin,
     max_nodes |-> MaxNodesTwin]

\* two builders, on two threads, constructed with_cache on one new cache
Init ==
    /\ InitCache
    /\ InitBuilders([b \in Builders |-> "building"], "with_cache", Borrowed)
    /\ workload = WorkloadShared

\* one builder at a time on one new cache
InitSolo ==
    /\ InitCache
    /\ InitBuilders(1 :> "building" @@ 2 :> "absent", "with_cache", Borrowed)
    /\ workload = WorkloadSolo

InitWide ==
    /\ InitCache
    /\ InitBuilders(1 :> "building" @@ 2 :> "absent", "with_cache", Borrowed)
    /\ workload = WorkloadWide

InitDeep ==
    /\ InitCache
    /\ InitBuilders(1 :> "building" @@ 2 :> "absent", "with_cache", Borrowed)
    /\ workload = WorkloadDeep

\* one builder made by ThreadedGreenNodeBuilder::new()
InitOwn ==
    /\ InitCache
    /\ InitBuilders(1 :> "building" @@ 2 :> "absent", "new", Owned)
    /\ workload = WorkloadOwn

InitNest ==
    /\ InitCache
    /\ InitBuilders(1 :> "building" @@ 2 :> "absent", "with_cache", Borrowed)
    /\ workload = WorkloadNest

\* two builders, on two threads, constructed with_cache on one new cache
InitTwin ==
    /\ InitCache
    /\ InitBuilders([b \in Builders |-> "building"], "with_cache", Borrowed)
    /\ workload = WorkloadTwin

Next ==
    \E b \in Builders :
        \/ with_cache(b)
        \/ \E c \in workload.token_calls : token(b, c[1], c[2])
        \/ \E kind \in workload.static_kinds : static_token(b, kind)
        \/ \E kind \in workload.node_kinds : start_node(b, kind)
        \/ finish_node(b)
        \/ checkpoint(b)
        \/ \E kind \in workload.node_kinds : start_node_at(b, kind)
        \/ finish(b)
        \/ pop_last_child(b)

\* parsers that make the plain construction calls
NextBuild ==
    \E b \in Builders :
        \/ with_cache(b)
        \/ \E c \in workload.token_calls : token(b, c[1], c[2])
        \/ \E kind \in workload.static_kinds : static_token(b, kind)
        \/ \E kind \in workload.node_kinds : start_node(b, kind)
        \/ finish_node(b)
        \/ finish(b)

\* the plain construction calls, with every way to make the builder and the
\* cache, and interner_mut
NextOwn ==
    \/ NodeCache_new
    \/ \E texts \in workload.interners : NodeCache_with_interner(texts)
    \/ \E texts \in workload.interners : NodeCache_from_interner(texts)
    \/ cache_interner_mut
    \/ \E b \in Builders :
        \/ new(b)
        \/ with_cache(b)
        \/ from_cache(b)
        \/ \E texts \in workload.interners : with_interner(b, texts)
        \/ \E texts \in workload.interners : from_interner(b, texts)
        \/ interner_mut(b)
        \/ \E c \in workload.token_calls : token(b, c[1], c[2])
        \/ \E kind \in workload.static_kinds : static_token(b, kind)
        \/ \E kind \in workload.node_kinds : start_node(b, kind)
        \/ finish_node(b)
        \/ finish(b)

Spec == Init /\ [][NextBuild]_vars
SpecOwn == InitOwn /\ [][NextOwn]_vars
SpecNest == InitNest /\ [][NextBuild]_vars
SpecTwin == InitTwin /\ [][NextBuild]_vars
SpecSolo == InitSolo /\ [][Next]_vars
SpecWide == InitWide /\ [][NextBuild]_vars

SpecDeep == InitDeep /\ [][Next]_vars

(* ------------------------------ the tree ------------------------------- *)
RECURSIVE Tree(_)
\* the structure below an element: kinds, texts, lengths and child order
Tree(e) ==
    IF e.tag = "Token"
    THEN LET d == tokenHeap[e.id]
         IN  [kind |-> d.kind,
              text |-> IF d.text = None THEN None
                       ELSE Some(interner[Unwrap(d.text)]),
              text_len |-> d.text_len]
    ELSE LET n == nodeHeap[e.id]
         IN  [kind |-> n.kind,
              children |-> [i \in 1..Len(n.children) |-> Tree(n.children[i])]]
\* a sequence of elements, structurally
Trees(s) == [i \in 1..Len(s) |-> Tree(s[i])]

RECURSIVE TokenLen(_)
\* the total length of the tokens reachable from an element
TokenLen(e) ==
    IF e.tag = "Token" THEN tokenHeap[e.id].text_len
    ELSE LET n == nodeHeap[e.id]
             RECURSIVE Sum(_)
             Sum(i) == IF i = 0 THEN 0 ELSE TokenLen(n.children[i]) + Sum(i - 1)
         IN  Sum(Len(n.children))

\* the key get_cached_node uses for a node
HeadOf(n) == [kind |-> n.kind, text_len |-> n.text_len, child_hash |-> n.child_hash]
\* the key get_cached_node computes for a kind and a slice of children
HeadFor(kind, slice) ==
    [kind |-> kind, text_len |-> SumTextLen(slice), child_hash |-> ChildHash(slice)]

TopKind(b) == Last(parents[b])[1]
TopFirst(b) == Last(parents[b])[2]
\* the children the top frame of b holds
TopSlice(b) == SliceFrom(children[b], TopFirst(b))
\* this step is a finish_node of b that returned
FinishNodeStep(b) ==
    /\ status[b] = "building" /\ status'[b] = "building"
    /\ Len(parents'[b]) = Len(parents[b]) - 1
\* this step is a token or static_token of b that returned
TokenStep(b) ==
    /\ status[b] = "building" /\ status'[b] = "building"
    /\ parents'[b] = parents[b]
    /\ Len(children'[b]) = Len(children[b]) + 1
\* the element the step appended to the pending list of b
Pushed(b) == children'[b][Len(children'[b])]
(* ------------------------------- claims -------------------------------- *)
\* C1 (fingerprint soundness): whenever finish_node on at most
\* CHILDREN_CACHE_THRESHOLD children is answered from the node cache, the
\* node returned has the kind of the frame and children deep-equal to the
\* children the builder supplied.
C1_FingerprintSound ==
    [][\A b \in Builders :
        (/\ FinishNodeStep(b)
         /\ Len(TopSlice(b)) <= CHILDREN_CACHE_THRESHOLD
         /\ HeadFor(TopKind(b), TopSlice(b)) \in DOMAIN nodes)
        => LET n == nodeHeap'[Pushed(b).id]
           IN  /\ n.kind = TopKind(b)
               /\ Trees(n.children) = Trees(TopSlice(b))]_vars

\* C2 (finish needs zero open frames): in a state with an open frame, finish
\* is a fatal violation and returns no root.
C2_FinishNeedsNoOpenFrame ==
    [][\A b \in Builders :
        (parents[b] # <<>> /\ finish(b))
        => (status'[b] \in Panics /\ root'[b] = None)]_vars
\* the token instances and the small-node instances are the cache entries of
\* their own keys
EntriesAreInstances ==
    /\ \A i \in 1..Len(tokenHeap) :
        tokenHeap[i] \in DOMAIN tokens /\ tokens[tokenHeap[i]] = i
    /\ \A i \in 1..Len(nodeHeap) :
        Len(nodeHeap[i].children) <= CHILDREN_CACHE_THRESHOLD
        => (HeadOf(nodeHeap[i]) \in DOMAIN nodes /\ nodes[HeadOf(nodeHeap[i])] = i)

\* the elements in the pending list or the finished tree of b, as a set
RECURSIVE Below(_)
Below(e) ==
    IF e.tag = "Token" THEN {e}
    ELSE {e} \cup UNION {Below(nodeHeap[e.id].children[i]) :
                            i \in 1..Len(nodeHeap[e.id].children)}
Holds(b) ==
    UNION {Below(children[b][i]) : i \in 1..Len(children[b])}
    \cup (IF root[b] = None THEN {} ELSE Below(NodeElem(Unwrap(root[b]))))

\* C3 (dedup through one cache): across all builders and trees built through
\* the cache, tokens with the same (kind, text key, length) are one instance,
\* and nodes of at most CHILDREN_CACHE_THRESHOLD children with the same kind
\* and deep-equal children are one instance.
C3_Dedup ==
    /\ \A i, j \in 1..Len(tokenHeap) : tokenHeap[i] = tokenHeap[j] => i = j
    /\ \A i, j \in 1..Len(nodeHeap) :
        (/\ Len(nodeHeap[i].children) <= CHILDREN_CACHE_THRESHOLD
         /\ Tree(NodeElem(i)) = Tree(NodeElem(j)))
        => i = j

\* C3 witness: two builders have finished trees whose root is the same node
\* instance, with a token below it
C3_Witness ==
    /\ status[1] = "finished" /\ status[2] = "finished"
    /\ root[1] = root[2]
    /\ \E e \in Holds(1) : e.tag = "Token"

\* C4 (per-key get-or-insert): a token or small-node request of any builder
\* is answered with the cache entry of its key; when the key is present the
\* entry and the heaps stay as they are, otherwise exactly one new instance
\* becomes the entry; no instance exists that is not the entry of its key.
C4_GetOrInsert ==
    /\ []EntriesAreInstances
    /\ [][\A b \in Builders :
            /\ TokenStep(b) =>
                LET data == tokenHeap'[Pushed(b).id]
                IN  /\ Pushed(b).tag = "Token"
                    /\ tokens'[data] = Pushed(b).id
                    /\ IF data \in DOMAIN tokens
                       THEN tokens' = tokens /\ tokenHeap' = tokenHeap
                       ELSE /\ DOMAIN tokens' = DOMAIN tokens \cup {data}
                            /\ tokenHeap' = Append(tokenHeap, data)
                    /\ \A d \in DOMAIN tokens : tokens'[d] = tokens[d]
            /\ (FinishNodeStep(b) /\ Len(TopSlice(b)) <= CHILDREN_CACHE_THRESHOLD) =>
                LET head == HeadFor(TopKind(b), TopSlice(b))
                IN  /\ Pushed(b).tag = "Node"
                    /\ nodes'[head] = Pushed(b).id
                    /\ IF head \in DOMAIN nodes
                       THEN nodes' = nodes /\ nodeHeap' = nodeHeap
                       ELSE /\ DOMAIN nodes' = DOMAIN nodes \cup {head}
                            /\ Len(nodeHeap') = Len(nodeHeap) + 1
                    /\ \A h \in DOMAIN nodes : nodes'[h] = nodes[h]]_vars

\* C4 witness: two builders are building at once and both hold the same token
\* instance and the same node instance in their pending lists
C4_Witness ==
    /\ status[1] = "building" /\ status[2] = "building"
    /\ \E e \in Holds(1) \cap Holds(2) : e.tag = "Token"
    /\ \E e \in Holds(1) \cap Holds(2) : e.tag = "Node"

\* C5 (threshold boundary): a finish_node over at most
\* CHILDREN_CACHE_THRESHOLD children returns the cache entry of the node's
\* fingerprint, so equal 3-child nodes are one instance; a finish_node over
\* more children leaves the node cache as it is and returns a new instance.
C5_Threshold ==
    /\ [][\A b \in Builders : FinishNodeStep(b) =>
            IF Len(TopSlice(b)) <= CHILDREN_CACHE_THRESHOLD
            THEN /\ HeadFor(TopKind(b), TopSlice(b)) \in DOMAIN nodes'
                 /\ Pushed(b) = NodeElem(nodes'[HeadFor(TopKind(b), TopSlice(b))])
                 /\ HeadFor(TopKind(b), TopSlice(b)) \in DOMAIN nodes
                    => nodeHeap' = nodeHeap
            ELSE /\ nodes' = nodes
                 /\ Pushed(b) = NodeElem(Len(nodeHeap) + 1)
                 /\ Len(nodeHeap') = Len(nodeHeap) + 1
                 /\ nodeHeap'[Len(nodeHeap')].children = TopSlice(b)]_vars
    /\ [](\A i, j \in 1..Len(nodeHeap) :
            (/\ Len(nodeHeap[i].children) = CHILDREN_CACHE_THRESHOLD
             /\ nodeHeap[i].kind = nodeHeap[j].kind
             /\ nodeHeap[i].children = nodeHeap[j].children) => i = j)
    /\ [](\A h \in DOMAIN nodes :
            Len(nodeHeap[nodes[h]].children) <= CHILDREN_CACHE_THRESHOLD)

\* C5 witness: a pending list holds one 3-child node instance twice, and two
\* distinct 4-child instances with the same kind and children exist
C5_Witness ==
    /\ \E b \in Builders :
        /\ Len(children[b]) = 2
        /\ children[b][1] = children[b][2]
        /\ children[b][1].tag = "Node"
        /\ Len(nodeHeap[children[b][1].id].children) = CHILDREN_CACHE_THRESHOLD
    /\ \E i, j \in 1..Len(nodeHeap) :
        /\ i # j
        /\ Len(nodeHeap[i].children) = CHILDREN_CACHE_THRESHOLD + 1
        /\ nodeHeap[i] = nodeHeap[j]

\* the total length of the tokens reachable from the pending list of b
RECURSIVE PendingTokenLen(_, _)
PendingTokenLen(b, i) ==
    IF i = 0 THEN 0 ELSE TokenLen(children[b][i]) + PendingTokenLen(b, i - 1)

\* C6 (document length): while a builder is in use, document_len() is the
\* total length of the tokens reachable from its pending-children list.
C6_DocumentLen ==
    \A b \in Builders :
        status[b] = "building" => doc_len[b] = PendingTokenLen(b, Len(children[b]))

\* C6 witness: a builder holds a token after a finished node that has a
\* child, under an open frame, after a checkpoint that a pop went below
C6_Witness ==
    \E b \in Builders :
        /\ status[b] = "building"
        /\ Len(children[b]) = 2
        /\ children[b][1].tag = "Node"
        /\ nodeHeap[children[b][1].id].children # <<>>
        /\ children[b][2].tag = "Token"
        /\ parents[b] # <<>>
        /\ cpLow[b] < cp[b]
        /\ doc_len[b] = 4
\* the first-child index of the frame below the top frame of b, 0 without one
EnclosingFirst(b) ==
    IF Len(parents[b]) < 2 THEN 0 ELSE parents[b][Len(parents[b]) - 1][2]

C8_WrapsAllSinceCheckpoint ==
    [][\A b \in Builders :
        (FinishNodeStep(b) /\ Last(wrapFrom[b]) # NoCheckpoint)
        => /\ Pushed(b).tag = "Node"
           /\ children'[b]
                = Append(Truncate(children[b], Last(wrapFrom[b])), Pushed(b))]_vars

\* C9 (stale checkpoint): start_node_at with a checkpoint whose index exceeds
\* the length the pending list has shrunk to is a fatal violation and pushes
\* no frame.
C9_StaleCheckpoint ==
    [][\A b \in Builders : \A kind \in workload.node_kinds :
        (/\ cpLow[b] < cp[b]
         /\ Len(children[b]) < cp[b]
         /\ start_node_at(b, kind))
        => /\ status'[b] = PanicStale
           /\ Len(parents'[b]) <= Len(parents[b])
           /\ nodeHeap' = nodeHeap]_vars

\* C9 witness: start_node_at was refused for a stale checkpoint after a
\* finish_node had put a node into the cache
C9_Witness ==
    \E b \in Builders : status[b] = PanicStale /\ nodeHeap # <<>>

\* C10 (out-of-scope checkpoint): with a frame open, start_node_at with a
\* checkpoint below the first-child index of the top frame is a fatal
\* violation and pushes no frame; with a checkpoint from that index up to the
\* length of the pending list it pushes the frame (kind, checkpoint).
C10_CheckpointScope ==
    [][\A b \in Builders : \A kind \in workload.node_kinds :
        (parents[b] # <<>> /\ start_node_at(b, kind))
        => IF cp[b] < TopFirst(b)
           THEN status'[b] \in Panics /\ Len(parents'[b]) <= Len(parents[b])
           ELSE cp[b] <= Len(children[b])
                => /\ status'[b] = "building"
                   /\ parents'[b] = Append(parents[b], <<kind, cp[b]>>)
                   /\ children'[b] = children[b]]_vars

\* C10 witness: start_node_at was refused for a checkpoint outside the frame
C10_Witness ==
    \E b \in Builders : status[b] = PanicScope

\* C11 (root must be a single node): finish is a fatal violation that
\* returns no root whenever the pending list does not hold exactly one
\* element and whenever its single element is a token; when finish returns,
\* the root is the single pending element and it is a node.
C11_RootIsSingleNode ==
    [][\A b \in Builders : finish(b) =>
        IF Len(children[b]) # 1
        THEN status'[b] = PanicNotOne /\ root'[b] = None
        ELSE IF children[b][1].tag = "Token"
        THEN status'[b] = PanicRootToken /\ root'[b] = None
        ELSE /\ status'[b] = "finished"
             /\ root'[b] = Some(children[b][1].id)
             /\ children[b][1].tag = "Node"
             /\ root'[b][1] \in 1..Len(nodeHeap)]_vars

\* C11 witness: finish was refused for a root that is a token, on a cache no
\* node was ever built in (only token calls were made)
C11_Witness ==
    \E b \in Builders :
        status[b] = PanicRootToken /\ nodeHeap = <<>> /\ Len(tokenHeap) = 1

\* C12 (child ordering): the node a finish_node produces has as its children
\* the elements of the closed frame in the order the token, static_token and
\* finish_node calls appended them, and no call reorders the pending list: a
\* call leaves a prefix of the list in place and appends at most one element.
C12_ChildOrder ==
    [][\A b \in Builders :
        /\ FinishNodeStep(b) =>
              nodeHeap'[Pushed(b).id].children = TopSlice(b)
        /\ (status[b] = "building" /\ status'[b] = "building") =>
              \E k \in 0..Len(children[b]) :
                  /\ Truncate(children'[b], k) = Truncate(children[b], k)
                  /\ Len(children'[b]) <= k + 1]_vars

\* C13 (cache monotonicity): no step of any builder removes a key from the
\* node map or the token map or maps it to another instance, and the
\* instances themselves stay as they were built.
C13_CacheMonotone ==
    [][/\ \A h \in DOMAIN nodes : h \in DOMAIN nodes' /\ nodes'[h] = nodes[h]
       /\ \A d \in DOMAIN tokens : d \in DOMAIN tokens' /\ tokens'[d] = tokens[d]
       /\ Len(nodeHeap') >= Len(nodeHeap)
       /\ Len(tokenHeap') >= Len(tokenHeap)
       /\ \A i \in 1..Len(nodeHeap) : nodeHeap'[i] = nodeHeap[i]
       /\ \A i \in 1..Len(tokenHeap) : tokenHeap'[i] = tokenHeap[i]]_vars

\* C13 witness: the node map holds two entries and the token map one; the
\* first builder finished a tree and the second, still building, was
\* answered with the entry that is the first one's root
C13_Witness ==
    /\ Cardinality(DOMAIN nodes) = 2
    /\ tokens # <<>>
    /\ status[1] = "finished" /\ status[2] = "building"
    /\ children[2] = <<NodeElem(Unwrap(root[1]))>>

\* C14 (no mutable access to a borrowed interner): interner_mut on a cache
\* returns no interner exactly when the cache was made by with_interner;
\* interner_mut on a builder returns no interner when the builder was made by
\* with_cache, or when its cache was made by with_interner (the builder's
\* own with_interner included), and returns one only when the builder owns
\* its cache and the cache owns its interner.
C14_NoMutBorrowed ==
    /\ asked.cache # Unasked
       => (asked.cache = None <=> made.cache = "with_interner")
    /\ \A b \in Builders :
        asked.builder[b] # Unasked
        => /\ made.builder[b] = "with_cache" => asked.builder[b] = None
           /\ made.builder[b] = "with_interner" => asked.builder[b] = None
           /\ made.cache = "with_interner" => asked.builder[b] = None
           /\ asked.builder[b] # None
              <=> (cache_ref[b] = Owned /\ interner_ref = Owned)
           /\ asked.builder[b] # None
              <=> (/\ made.builder[b] \in {"new", "from_cache", "from_interner"}
                   /\ made.cache \in {"new", "from_interner"})
\* a builder made by with_interner was asked, after it interned a token
C14_Witness ==
    /\ made.builder[1] = "with_interner"
    /\ asked.builder[1] = None
    /\ tokenHeap # <<>>

\* the constructors that make a builder owning its cache
OwningConstructors == {"new", "from_cache", "with_interner", "from_interner"}
\* C15 (cache hand-back): after a successful finish the builder has returned
\* a cache exactly when it was made by new, from_cache, with_interner or
\* from_interner, and that cache has every token and node the cache made as
\* the entry of its key; a builder made by with_cache has returned no cache,
\* and the cache it borrowed is alive and has those entries.
C15_CacheHandBack ==
    \A b \in Builders :
        status[b] = "finished"
        => /\ handed[b] # None <=> made.builder[b] \in OwningConstructors
           /\ made.builder[b] = "with_cache" => (handed[b] = None /\ cache_alive)
           /\ LET kept == IF handed[b] # None THEN Unwrap(handed[b])
                          ELSE [nodes |-> nodes, tokens |-> tokens]
              IN  /\ \A e \in Holds(b) :
                        IF e.tag = "Token"
                        THEN /\ tokenHeap[e.id] \in DOMAIN kept.tokens
                             /\ kept.tokens[tokenHeap[e.id]] = e.id
                        ELSE Len(nodeHeap[e.id].children) <= CHILDREN_CACHE_THRESHOLD
                             => /\ HeadOf(nodeHeap[e.id]) \in DOMAIN kept.nodes
                                /\ kept.nodes[HeadOf(nodeHeap[e.id])] = e.id
                  /\ \A i \in 1..Len(tokenHeap) :
                        /\ tokenHeap[i] \in DOMAIN kept.tokens
                        /\ kept.tokens[tokenHeap[i]] = i
\* a builder made by from_cache handed back a cache holding a node and a token
C15_Witness ==
    /\ status[1] = "finished"
    /\ made.builder[1] = "from_cache"
    /\ handed[1] # None
    /\ Unwrap(handed[1]).tokens # <<>>
    /\ Unwrap(handed[1]).nodes # <<>>

\* C16 (finish_node slice contract): a finish_node that returns pops the top
\* frame (kind, first_child); afterwards the pending list has first_child + 1
\* elements, its first first_child elements are the ones it had, and its
\* last element is a node of that kind -- whether the node came from the
\* cache, was inserted into it, or has more than CHILDREN_CACHE_THRESHOLD
\* children.
C16_SliceContract ==
    [][\A b \in Builders :
        FinishNodeStep(b)
        => /\ parents'[b] = Truncate(parents[b], Len(parents[b]) - 1)
           /\ Len(children'[b]) = TopFirst(b) + 1
           /\ Truncate(children'[b], TopFirst(b)) = Truncate(children[b], TopFirst(b))
           /\ Pushed(b).tag = "Node"
           /\ Pushed(b).id \in 1..Len(nodeHeap')
           /\ nodeHeap'[Pushed(b).id].kind = TopKind(b)]_vars
\* after a token, one node with children was built and then returned by the
\* cache for the same children; a node above the threshold exists too
C16_Witness ==
    /\ \E b \in Builders :
        /\ Len(children[b]) = 3
        /\ children[b][1].tag = "Token"
        /\ children[b][2].tag = "Node"
        /\ children[b][3] = children[b][2]
        /\ nodeHeap[children[b][2].id].children # <<>>
    /\ \E i \in 1..Len(nodeHeap) :
        Len(nodeHeap[i].children) > CHILDREN_CACHE_THRESHOLD

TokenWellFormed(t, texts) ==
    IF static_text(t.kind) # None
    THEN /\ t.text = None
         /\ t.text_len = Len(Unwrap(static_text(t.kind)))
    ELSE /\ t.text # None
         /\ Unwrap(t.text) \in 1..Len(texts)
         /\ t.text_len = Len(texts[Unwrap(t.text)])
\* C18 (token static-text invariant): after every step, every token made and
\* every token in the cache has, for a kind with static text, no text key
\* and the length of the static text, and for a kind without, the key of an
\* interned text and its length; the token a call of token appends has the
\* kind given and, without static text, the key of the text given and its
\* length, with static text the static length whatever text was given; the
\* token static_token appends has no key and the static length.
C18_TokenStaticText ==
    [][/\ \A i \in 1..Len(tokenHeap') : TokenWellFormed(tokenHeap'[i], interner')
       /\ \A d \in DOMAIN tokens' :
            TokenWellFormed(d, interner') /\ tokenHeap'[tokens'[d]] = d
       /\ \A b \in Builders :
            /\ \A c \in workload.token_calls :
                (token(b, c[1], c[2]) /\ TokenStep(b))
                => LET t == tokenHeap'[Pushed(b).id]
                   IN  /\ Pushed(b).tag = "Token"
                       /\ t.kind = c[1]
                       /\ IF static_text(c[1]) # None
                          THEN /\ t.text = None
                               /\ t.text_len = Len(Unwrap(static_text(c[1])))
                          ELSE /\ t.text # None
                               /\ interner'[Unwrap(t.text)] = c[2]
                               /\ t.text_len = Len(c[2])
            /\ \A kind \in workload.static_kinds :
                (static_token(b, kind) /\ TokenStep(b))
                => LET t == tokenHeap'[Pushed(b).id]
                   IN  /\ Pushed(b).tag = "Token"
                       /\ t.kind = kind
                       /\ t.text = None
                       /\ static_text(kind) # None
                       /\ t.text_len = Len(Unwrap(static_text(kind)))]_vars
\* the cache holds a token with static text and an identifier whose text
\* was interned after another text
C18_Witness ==
    \E i, j \in 1..Len(tokenHeap) :
        /\ tokenHeap[i].kind = Plus
        /\ tokenHeap[j].kind = Ident
        /\ tokenHeap[j].text = Some(2)
        /\ interner = <<"cd", "ab">>

\* C19 (pop_last_child stays inside the current frame): when the pending
\* list is longer than the first_child of the top frame (longer than 0 with
\* no open frame), pop_last_child removes exactly the last pending element,
\* lowers doc_len by that element's length, and leaves the frames, the other
\* pending elements and the cache as they are; otherwise it panics, so the
\* pending list never gets shorter than the first_child of an open frame.
C19_PopInsideFrame ==
    [][\A b \in Builders :
        pop_last_child(b)
        => LET first == IF parents[b] = <<>> THEN 0 ELSE TopFirst(b)
           IN  IF Len(children[b]) > first
               THEN /\ status'[b] = "building"
                    /\ children'[b] = Truncate(children[b], Len(children[b]) - 1)
                    /\ doc_len'[b] = doc_len[b] - text_len(Last(children[b]))
                    /\ parents'[b] = parents[b]
                    /\ Len(children'[b]) >= first
                    /\ UNCHANGED cacheVars
               ELSE /\ status'[b] = PanicNoChild
                    /\ root'[b] = None]_vars
\* pop_last_child panicked in a builder that had made a token
C19_Witness ==
    \E b \in Builders :
        /\ status[b] = PanicNoChild
        /\ tokenHeap # <<>>
        /\ nodeHeap = <<>>

\* C20 (finish_node without an open frame): with an empty frame stack,
\* finish_node panics, makes no node and changes no cache entry; with an
\* open frame, whose first_child is never beyond the end of the pending
\* list, it returns and leaves exactly one frame less; finish_node panics
\* in no other state.
C20_FinishNodeNeedsFrame ==
    [][\A b \in Builders :
        /\ finish_node(b)
           => IF parents[b] = <<>>
              THEN /\ status'[b] = PanicNoFrame
                   /\ children'[b] = <<>>
                   /\ root'[b] = None
                   /\ UNCHANGED cacheVars
              ELSE /\ TopFirst(b) <= Len(children[b])
                   /\ status'[b] = "building"
                   /\ Len(parents'[b]) = Len(parents[b]) - 1
                   /\ parents'[b] = Truncate(parents[b], Len(parents[b]) - 1)
        /\ (status[b] = "building" /\ status'[b] = PanicNoFrame)
           => parents[b] = <<>>]_vars
\* finish_node panicked after the one open node had been finished
C20_Witness ==
    \E b \in Builders :
        /\ status[b] = PanicNoFrame
        /\ Len(nodeHeap) = 1
        /\ tokenHeap = <<>>

\* C21 (frame-index invariant): in every state of a builder that no call
\* has aborted, the first_child indices in the frame stack are non-negative
\* and non-decreasing from bottom to top, and the top one is at most the
\* length of the pending list, so that children[first_child..] in
\* current_children and in the node request of finish_node is in range.
C21_FrameIndices ==
    \A b \in Builders :
        status[b] = "building"
        => /\ \A i \in 1..Len(parents[b]) : parents[b][i][2] >= 0
           /\ \A i \in 1..(Len(parents[b]) - 1) :
                parents[b][i][2] <= parents[b][i + 1][2]
           /\ parents[b] # <<>> => TopFirst(b) <= Len(children[b])
           /\ Len(current_children(b)) =
                Len(children[b]) - (IF parents[b] = <<>> THEN 0 ELSE TopFirst(b))
\* start_node_at opened a frame inside another, at a checkpoint after the
\* outer frame's first child and before the end of the pending list
C21_Witness ==
    \E b \in Builders :
        /\ status[b] = "building"
        /\ Len(parents[b]) = 2
        /\ parents[b][1][2] < parents[b][2][2]
        /\ parents[b][2][2] < Len(children[b])

RECURSIVE SoloTree(_)
\* the structure below an element held as a value
SoloTree(e) ==
    IF e.tag = "Token"
    THEN [kind |-> e.kind, text |-> e.str, text_len |-> e.text_len]
    ELSE [kind |-> e.kind,
          children |-> [i \in 1..Len(e.children) |-> SoloTree(e.children[i])]]
\* C22 (cache-independence of the built tree): whatever the other builder
\* does on the shared cache and whatever the cache held before, the tree a
\* builder finishes has the structure -- kinds, child order, and the kind,
\* text and length of every token -- of the tree its own calls since
\* construction give on a new cache of its own.
C22_CacheIndependent ==
    \A b \in Builders :
        status[b] = "finished"
        => /\ Len(solo[b].children) = 1
           /\ Tree(NodeElem(Unwrap(root[b]))) = SoloTree(solo[b].children[1])
====
